---- MODULE Spec2Model ----
(***************************************************************************)
(* Model of move_lmstudio.py: relocation of a directory tree to a target   *)
(* path and replacement of the source path by a directory junction, driven *)
(* by the command-line front-end (run_cli) or the graphical one (MoveApp). *)
(* The filesystem is a map from paths to entries; the external commands    *)
(* (robocopy, mklink) and the I/O errors of mkdir / rmtree / copy2 are     *)
(* nondeterministic outcomes.                                              *)
(***************************************************************************)
EXTENDS Integers, Sequences, FiniteSets, TLC

\* ------------------------------------------------------------------ bounds
\* File contents are 1..MaxSize (a content is also its size in bytes); 0 = no file.
MaxSize == 2
\* How many times run_cli may prompt for the target directory (loop at 239).
MaxPrompts == 2

\* ------------------------------------------------------------- filesystem
Paths == {"P1", "P2"}
NoPath == "none"
FileNames == {"f", "g"}
SubDirs == {"d"}
\* "f" lies directly under the root of a tree, "g" lies in the subdirectory "d".
Parent(n) == IF n = "g" THEN "d" ELSE "."

LinkKinds == {"junction", "symlink"}
Kinds == {"absent", "file", "dir"} \cup LinkKinds

EmptyTree == [dirs |-> {}, files |-> [n \in FileNames |-> 0]]
Trees ==
  {t \in [dirs : SUBSET SubDirs, files : [FileNames -> 0..MaxSize]] :
     \A n \in FileNames : (t.files[n] > 0 /\ Parent(n) # ".") => Parent(n) \in t.dirs}

Absent == [kind |-> "absent", tree |-> EmptyTree, link |-> NoPath]
PlainFile == [kind |-> "file", tree |-> EmptyTree, link |-> NoPath]
Dir(t) == [kind |-> "dir", tree |-> t, link |-> NoPath]
Link(k, q) == [kind |-> k, tree |-> EmptyTree, link |-> q]
Entries ==
  {Absent, PlainFile} \cup {Dir(t) : t \in Trees}
    \cup {Link(k, q) : k \in LinkKinds, q \in Paths}
FileSystems == [Paths -> Entries]
\* The filesystems a run may find: a link leads to a plain entry or to nothing.
InitialFileSystems ==
  {f \in FileSystems :
     \A p \in Paths : f[p].kind \in LinkKinds =>
        (f[p].link # p /\ f[f[p].link].kind \notin LinkKinds)}

\* os.stat: follows junctions and symlinks; NoPath when the chain loops.
RECURSIVE Follow(_, _, _)
Follow(f, p, seen) ==
  IF f[p].kind \in LinkKinds
    THEN IF f[p].link \in seen \cup {p} THEN NoPath
         ELSE Follow(f, f[p].link, seen \cup {p})
    ELSE p
Final(f, p) == Follow(f, p, {})

\* Path.resolve(): os.path.realpath, non-strict; follows links (also broken
\* ones) and stops at the first path met twice.
RECURSIVE Realpath(_, _, _)
Realpath(f, p, seen) ==
  IF p \in seen THEN p
  ELSE IF f[p].kind \in LinkKinds THEN Realpath(f, f[p].link, seen \cup {p})
  ELSE p
resolve(f, p) == Realpath(f, p, {})

\* Path.exists(), Path.is_dir(): follow links. Path.is_symlink(): lstat, true
\* of symbolic links only (a junction is a mount-point reparse point).
exists(f, p) == Final(f, p) # NoPath /\ f[Final(f, p)].kind \in {"file", "dir"}
is_dir(f, p) == Final(f, p) # NoPath /\ f[Final(f, p)].kind = "dir"
is_symlink(f, p) == f[p].kind = "symlink"
\* Whether any entry at all occupies the path (lstat succeeds).
Occupied(f, p) == f[p].kind # "absent"

\* The tree read through a path (os.walk follows a link given as its top).
TreeAt(f, p) == IF is_dir(f, p) THEN f[Final(f, p)].tree ELSE EmptyTree
PresentFiles(t) == {n \in FileNames : t.files[n] > 0}

RECURSIVE SumSizes(_, _)
SumSizes(t, ns) ==
  IF ns = {} THEN 0
  ELSE LET n == CHOOSE x \in ns : TRUE IN t.files[n] + SumSizes(t, ns \ {n})
walk_dir_size(f, p) == SumSizes(TreeAt(f, p), FileNames)

collect_dir_info(f, p) ==
  LET t == TreeAt(f, p)
      fc == Cardinality(PresentFiles(t))
      dc == Cardinality(t.dirs)
      walked == exists(f, p) /\ is_dir(f, p)
  IN [exists |-> exists(f, p),
      is_dir |-> is_dir(f, p),
      file_count |-> IF walked THEN fc ELSE 0,
      dir_count |-> IF walked THEN dc ELSE 0,
      total_size |-> IF walked THEN walk_dir_size(f, p) ELSE 0,
      is_empty |-> IF walked THEN (fc = 0 /\ dc = 0) ELSE TRUE]

\* ------------------------------------------------- filesystem operations
\* Every operation is the set of its possible outcomes: the filesystem it
\* leaves and how it returned.

SetTree(f, p, t) == [f EXCEPT ![Final(f, p)] = Dir(t)]

\* path.mkdir(parents=True, exist_ok=True): an occupied path is accepted only
\* if it is a directory; creating a missing one may fail with an OSError.
ensure_directory(f, p) ==
  IF Occupied(f, p)
    THEN {[fs |-> f, ok |-> is_dir(f, p)]}
    ELSE {[fs |-> [f EXCEPT ![p] = Dir(EmptyTree)], ok |-> TRUE],
          [fs |-> f, ok |-> FALSE]}

\* What may be left of a tree when its removal stops part-way.
Remains(t) ==
  {r \in Trees : r.dirs \subseteq t.dirs
                 /\ \A n \in FileNames : r.files[n] \in {0, t.files[n]}}

\* shutil.rmtree(path, ignore_errors=False): refuses links and non-directories;
\* on a directory it either removes everything or raises part-way.
rmtree(f, p) ==
  IF f[p].kind = "dir"
    THEN {[fs |-> [f EXCEPT ![p] = Absent], ok |-> TRUE]}
           \cup {[fs |-> [f EXCEPT ![p] = Dir(r)], ok |-> FALSE] : r \in Remains(f[p].tree)}
    ELSE {[fs |-> f, ok |-> FALSE]}

\* delete_directory(path): no-op on a path that does not exist.
delete_directory(f, p) ==
  IF ~exists(f, p) THEN {[fs |-> f, ok |-> TRUE, called |-> FALSE]}
  ELSE {[fs |-> o.fs, ok |-> o.ok, called |-> TRUE] : o \in rmtree(f, p)}

\* robocopy /E without /PURGE: every source directory and file is written to
\* the destination, files that differ are overwritten, extras are kept.
RoboFull(src, dst) ==
  [dirs |-> dst.dirs \cup src.dirs,
   files |-> [n \in FileNames |-> IF src.files[n] > 0 THEN src.files[n] ELSE dst.files[n]]]
\* A robocopy run that reports failures copied only part of the source.
RoboPartial(src, dst) ==
  {r \in Trees :
     /\ dst.dirs \subseteq r.dirs /\ r.dirs \subseteq dst.dirs \cup src.dirs
     /\ \A n \in FileNames : r.files[n] \in {dst.files[n], RoboFull(src, dst).files[n]}}

\* run_robocopy(source, target): rc is the class of the exit code;
\* "notfound" is the FileNotFoundError branch. Returns ret.
run_robocopy(f, s, t) ==
  LET src == TreeAt(f, s)
      dst == TreeAt(f, t)
  IN {[fs |-> f, rc |-> "notfound", ret |-> FALSE]}
       \cup (IF is_dir(f, s) /\ is_dir(f, t)
               THEN {[fs |-> SetTree(f, t, RoboFull(src, dst)), rc |-> "le7", ret |-> TRUE]}
                      \cup {[fs |-> SetTree(f, t, r), rc |-> "gt7", ret |-> FALSE] :
                              r \in RoboPartial(src, dst)}
               ELSE {[fs |-> f, rc |-> "gt7", ret |-> FALSE]})

\* WalkStep with shutil.copy2 called whether or not the destination exists.
WalkStep_overwrite(src, dst, i) ==
  CASE i = 1 -> IF src.files["f"] > 0
                  THEN [dst EXCEPT !.files["f"] = src.files["f"]] ELSE dst
    [] i = 2 -> IF "d" \in src.dirs THEN [dst EXCEPT !.dirs = @ \cup {"d"}] ELSE dst
    [] i = 3 -> IF src.files["g"] > 0
                  THEN [dst EXCEPT !.files["g"] = src.files["g"]] ELSE dst

\* The manual copy of copy_directory walks the source top-down: the files of
\* the root, then the subdirectory, then its files. WalkStep(src, dst, i) is
\* the destination after step i; a file is copied only if it is missing.
WalkLen == 3
WalkStep(src, dst, i) ==
  CASE i = 1 -> IF src.files["f"] > 0 /\ dst.files["f"] = 0
                  THEN [dst EXCEPT !.files["f"] = src.files["f"]] ELSE dst
    [] i = 2 -> IF "d" \in src.dirs THEN [dst EXCEPT !.dirs = @ \cup {"d"}] ELSE dst
    [] i = 3 -> IF src.files["g"] > 0 /\ dst.files["g"] = 0
                  THEN [dst EXCEPT !.files["g"] = src.files["g"]] ELSE dst
\* The walk that stops after the files of the root.
WalkTo_root_only(src, dst, k) == IF k = 0 THEN dst ELSE WalkStep(src, dst, 1)
RECURSIVE WalkTo(_, _, _)
WalkTo(src, dst, k) == IF k = 0 THEN dst ELSE WalkStep(src, WalkTo(src, dst, k - 1), k)

\* Outcomes of the manual copy: complete, or an error raised by the mkdir or
\* copy2 of a step that had something to write, the earlier steps done.
ManualCopy(f, s, t) ==
  IF ~is_dir(f, s) THEN {[fs |-> f, ok |-> TRUE]}
  ELSE LET src == TreeAt(f, s)
           dst == TreeAt(f, t)
       IN {[fs |-> SetTree(f, t, WalkTo(src, dst, WalkLen)), ok |-> TRUE]}
            \cup {[fs |-> SetTree(f, t, WalkTo(src, dst, k - 1)), ok |-> FALSE] :
                    k \in {j \in 1..WalkLen : WalkTo(src, dst, j) # WalkTo(src, dst, j - 1)}}

\* cmd /c mklink /J link target: fails when the link path is occupied or the
\* caller lacks the right to create it; the target is not examined.
mklink(f, l, t) ==
  IF Occupied(f, l) THEN {[fs |-> f, rc |-> 1]}
  ELSE {[fs |-> [f EXCEPT ![l] = Link("junction", t)], rc |-> 0], [fs |-> f, rc |-> 1]}

\* create_junction(link_path, target_path): res is "ok", "precondition" (the
\* RuntimeError of line 193) or "failed" (mklink returned non-zero).
create_junction(f, l, t) ==
  IF exists(f, l) \/ is_symlink(f, l)
    THEN {[fs |-> f, res |-> "precondition", invoked |-> FALSE]}
    ELSE {[fs |-> o.fs, res |-> IF o.rc = 0 THEN "ok" ELSE "failed", invoked |-> TRUE] :
            o \in mklink(f, l, t)}

\* ------------------------------------------------------------------ state
VARIABLES
  fs,             \* the filesystem
  fs0,            \* the filesystem when the current run started
  frontend,       \* "cli" (run_cli) or "gui" (MoveApp)
  pc,             \* position of run_cli / of the worker thread
  source, target, \* source_dir / target_dir, resolved
  prompts,        \* iterations of the target prompt loop of run_cli
  policy,         \* destination policy the run has settled on
  overwrite_var, link_only_var,   \* the two check boxes of MoveApp
  overwrite, link_only,           \* their values as read by _start
  running,        \* MoveApp._running (entries and start button disabled)
  workers,        \* worker threads of MoveApp._start that have not ended
  outcome,        \* how the run ended
  log             \* calls made and messages shown, in order

vars == <<fs, fs0, frontend, pc, source, target, prompts, policy, overwrite_var,
          link_only_var, overwrite, link_only, running, workers, outcome, log>>

Policies == {"none", "ProceedFresh", "OverwriteExisting", "LinkOnlyToExisting"}
Outcomes == {"none", "Aborted", "Done", "Failed_precheck", "Failed_overwrite",
             "Failed_copy", "Failed_delete", "Failed_link"}

Init ==
  /\ fs \in InitialFileSystems
  /\ fs0 = fs
  /\ frontend \in {"cli", "gui"}
  /\ pc = IF frontend = "cli" THEN "cli_source" ELSE "idle"
  /\ source = NoPath /\ target = NoPath
  /\ prompts = 0
  /\ policy = "none"
  /\ overwrite_var = FALSE /\ link_only_var = FALSE
  /\ overwrite = FALSE /\ link_only = FALSE
  /\ running = FALSE /\ workers = 0
  /\ outcome = "none"
  /\ log = <<>>

\* Where control rests once a run is over: run_cli has returned, or the
\* worker thread has ended and the window waits for the next click.
Rest == IF frontend = "cli" THEN "exit" ELSE "idle"

\* The phase a position belongs to.
PhaseOf(p) ==
  CASE p = "rm_target" -> "overwrite"
    [] p \in {"copy_ensure", "copy_robocopy", "copy_fallback"} -> "copy"
    [] p \in {"delete", "lo_delete"} -> "delete"
    [] p \in {"link", "lo_link"} -> "link"
    [] OTHER -> "precheck"

\* The try/except blocks of run_cli (293-313) cover the copy, the deletion of
\* the source and the link of the full flow, each with its own message.
cli_except(p) ==
  CASE PhaseOf(p) = "copy" -> <<"msg:copy_error">>
    [] p = "delete" -> <<"msg:delete_failed", "msg:no_junction_created">>
    [] p = "link" -> <<"msg:junction_failed", "msg:run_as_admin">>
    [] OTHER -> <<"unhandled_exception">>

\* The worker of MoveApp._start has try/finally and no except clause: the
\* exception leaves the thread after _set_running(False).
worker_finally(p) == <<"unhandled_exception">>

OnRaise(p) == IF frontend = "cli" THEN cli_except(p) ELSE worker_finally(p)

Step(f2, pc2, lg) ==
  /\ fs' = f2 /\ pc' = pc2 /\ log' = log \o lg
  /\ UNCHANGED <<fs0, frontend, source, target, prompts, policy, overwrite_var,
                 link_only_var, overwrite, link_only, running, workers, outcome>>

\* _set_running that never disables the start button.
set_running_keeps_enabled(r) == FALSE

\* _set_running that never enables the input again.
set_running_keeps_disabled(r) == TRUE

\* _set_running(running) (451-459): the value _running takes; the entries and
\* the start button are disabled exactly while it is TRUE.
set_running(r) == r

\* The run ends; in the window, _set_running(False) re-enables the input.
Stop(f2, out, lg) ==
  /\ fs' = f2 /\ pc' = Rest /\ log' = log \o lg /\ outcome' = out
  /\ running' = IF frontend = "gui" THEN set_running(FALSE) ELSE running
  /\ workers' = IF frontend = "gui" THEN workers - 1 ELSE workers
  /\ UNCHANGED <<fs0, frontend, source, target, prompts, policy, overwrite_var,
                 link_only_var, overwrite, link_only>>

Raise(f2, lg) == Stop(f2, "Failed_" \o PhaseOf(pc), lg \o <<"raise:" \o PhaseOf(pc)>> \o OnRaise(pc))

\* The start of a run: what the prompts (run_cli) or the form (_start) fix.
Front(f2, pc2, out, lg, src, tgt, pol) ==
  /\ fs' = f2 /\ pc' = pc2 /\ outcome' = out /\ log' = lg
  /\ source' = src /\ target' = tgt /\ policy' = pol
  /\ UNCHANGED <<frontend, overwrite_var, link_only_var>>

\* ---------------------------------------------------------------- run_cli
\* run_cli_source with the missing source created before the user is asked.
run_cli_source_creates_first ==
  /\ pc = "cli_source"
  /\ UNCHANGED <<fs0, prompts, overwrite, link_only, running, workers>>
  /\ \E typed \in Paths :
       LET src == resolve(fs, typed)
           si == collect_dir_info(fs, src)
           Cancel(f2, lg) ==
             Front(f2, "exit", "Aborted", lg \o <<"msg:cancelled">>, src, NoPath, "none")
           Go(f2, lg) == Front(f2, "cli_target", "none", lg, src, NoPath, "none")
       IN IF si.exists THEN Go(fs, <<>>)
          ELSE \E create \in BOOLEAN, o \in ensure_directory(fs, src) :
                 IF ~create THEN Cancel(o.fs, <<"no:create">>)
                 ELSE Go(o.fs, <<"ensure_directory(source)">>)

\* Lines 219-236: the source prompt, creation of a missing source and the
\* empty-source confirmation.
run_cli_source ==
  /\ pc = "cli_source"
  /\ UNCHANGED <<fs0, prompts, overwrite, link_only, running, workers>>
  /\ \E typed \in Paths :
       LET src == resolve(fs, typed)
           si == collect_dir_info(fs, src)
           Cancel(f2, lg) ==
             Front(f2, "exit", "Aborted", lg \o <<"msg:cancelled">>, src, NoPath, "none")
           Go(f2, lg) == Front(f2, "cli_target", "none", lg, src, NoPath, "none")
           After(f2, lg) ==
             LET si2 == collect_dir_info(f2, src)
             IN IF si2.exists /\ si2.is_dir /\ si2.is_empty
                  THEN \E goOn \in BOOLEAN : IF goOn THEN Go(f2, lg) ELSE Cancel(f2, lg)
                  ELSE Go(f2, lg)
       IN IF si.exists THEN After(fs, <<>>)
          ELSE \E create \in BOOLEAN :
                 IF ~create THEN Cancel(fs, <<"no:create">>)
                 ELSE \E o \in ensure_directory(fs, src) :
                        IF o.ok THEN After(o.fs, <<"ensure_directory(source)">>)
                        ELSE Front(o.fs, "exit", "Failed_precheck",
                                   <<"ensure_directory(source)", "raise:precheck",
                                     "unhandled_exception">>, src, NoPath, "none")

Choices == {"1", "2", "3", "4", "other"}

\* Lines 239-276: one iteration of the target prompt loop.
run_cli_target ==
  /\ pc = "cli_target" /\ prompts < MaxPrompts
  /\ prompts' = prompts + 1
  /\ UNCHANGED <<fs0, overwrite, link_only, running, workers>>
  /\ \E typed \in Paths :
       LET tgt == resolve(fs, typed)
           ti == collect_dir_info(fs, tgt)
           Again == /\ prompts + 1 < MaxPrompts
                    /\ Front(fs, "cli_target", "none", log, source, tgt, "none")
       IN IF ~ti.exists
            THEN Front(fs, "cli_confirm", "none", log, source, tgt, "ProceedFresh")
            ELSE \E choice \in Choices :
                   CASE choice = "1" -> Again
                     [] choice = "2" ->
                          \E yes \in BOOLEAN :
                            IF yes THEN Front(fs, "rm_target", "none", log \o <<"yes:overwrite">>,
                                              source, tgt, "OverwriteExisting")
                            ELSE Again
                     [] choice = "3" ->
                          \E yes \in BOOLEAN :
                            IF yes THEN Front(fs, "lo_delete", "none", log \o <<"yes:link_only">>,
                                              source, tgt, "LinkOnlyToExisting")
                            ELSE Again
                     [] choice = "4" ->
                          Front(fs, "exit", "Aborted", log \o <<"msg:cancelled">>, source, tgt, "none")
                     [] OTHER -> Again

\* Lines 278-290: the advisory checks and the final confirmation.
run_cli_confirm ==
  /\ pc = "cli_confirm"
  /\ \E yes \in BOOLEAN :
       IF yes THEN Step(fs, "copy_ensure", <<"advisory", "yes:closed">>)
       ELSE Stop(fs, "Aborted", <<"advisory", "msg:cancelled">>)

\* ---------------------------------------------------------------- MoveApp
\* _sync_option_states that leaves the overwrite box as it is.
sync_option_states_noop(ov, lo) == ov

\* _sync_option_states (398-405): ticking link-only clears overwrite.
sync_option_states(ov, lo) == IF lo THEN FALSE ELSE ov

\* A click on the overwrite check box, then its command.
toggle_overwrite ==
  /\ frontend = "gui"
  /\ overwrite_var' = sync_option_states(~overwrite_var, link_only_var)
  /\ UNCHANGED <<fs, fs0, frontend, pc, source, target, prompts, policy, link_only_var,
                 overwrite, link_only, running, workers, outcome, log>>

\* A click on the link-only check box, then its command.
toggle_link_only ==
  /\ frontend = "gui"
  /\ link_only_var' = ~link_only_var
  /\ overwrite_var' = sync_option_states(overwrite_var, ~link_only_var)
  /\ UNCHANGED <<fs, fs0, frontend, pc, source, target, prompts, policy,
                 overwrite, link_only, running, workers, outcome, log>>

\* _start (461-546) up to the start of the worker thread. The start button is
\* disabled while _running, so the handler runs only when no worker does.
MoveApp_start ==
  /\ frontend = "gui" /\ ~running
  /\ fs0' = fs
  /\ link_only' = link_only_var /\ overwrite' = overwrite_var
  /\ UNCHANGED <<prompts>>
  /\ \E ts \in Paths, tt \in Paths :
       LET src == resolve(fs, ts)
           tgt == resolve(fs, tt)
           si == collect_dir_info(fs, src)
           ti == collect_dir_info(fs, tgt)
           Return(f2, out, lg) ==
             /\ Front(f2, "idle", out, lg, src, tgt, "none") /\ UNCHANGED <<running, workers>>
           Confirm(f2, lg, pol) ==
             \E yesClosed \in BOOLEAN :
               IF yesClosed
                 THEN /\ Front(f2, "w_begin", "none", lg \o <<"advisory", "yes:closed">>,
                               src, tgt, pol)
                      /\ running' = set_running(TRUE) /\ workers' = workers + 1
                 ELSE Return(f2, "Aborted", lg \o <<"advisory">>)
           Target(f2, lg) ==
             IF link_only_var THEN Confirm(f2, lg, "LinkOnlyToExisting")
             ELSE IF ~ti.exists THEN Confirm(f2, lg, "ProceedFresh")
             ELSE IF ~overwrite_var THEN Return(f2, "Aborted", lg \o <<"msg:target_exists">>)
             ELSE \E yesOver \in BOOLEAN :
                    IF yesOver THEN Confirm(f2, lg \o <<"yes:overwrite">>, "OverwriteExisting")
                    ELSE Return(f2, "Aborted", lg)
           After(f2, lg) ==
             LET si2 == collect_dir_info(f2, src)
             IN IF si2.is_dir /\ si2.is_empty
                  THEN \E goOn \in BOOLEAN :
                         IF goOn THEN Target(f2, lg) ELSE Return(f2, "Aborted", lg)
                  ELSE Target(f2, lg)
       IN IF si.exists THEN After(fs, <<>>)
          ELSE \E create \in BOOLEAN :
                 IF ~create THEN Return(fs, "Aborted", <<"no:create">>)
                 ELSE \E o \in ensure_directory(fs, src) :
                        IF o.ok THEN After(o.fs, <<"ensure_directory(source)">>)
                        ELSE Return(o.fs, "Failed_precheck",
                                    <<"ensure_directory(source)", "raise:precheck",
                                      "msg:create_source_failed">>)

\* worker_begin with the deletion of the source moved before the copy.
worker_begin_delete_first ==
  /\ pc = "w_begin"
  /\ IF link_only THEN Step(fs, "lo_delete", <<>>)
     ELSE Step(fs, "delete", <<>>)

\* The first branch of the worker (527, 535).
worker_begin ==
  /\ pc = "w_begin"
  /\ IF link_only THEN Step(fs, "lo_delete", <<>>)
     ELSE IF overwrite /\ exists(fs, target) THEN Step(fs, "rm_target", <<>>)
     ELSE Step(fs, "copy_ensure", <<>>)

\* ----------------------------------------------------- the mutating phases
\* The phases are the same calls in run_cli and in the worker; what follows
\* an exception differs (OnRaise).

\* shutil.rmtree(target) under overwrite (run_cli 256-258, worker 535-537).
overwrite_rmtree ==
  /\ pc = "rm_target"
  /\ \E o \in rmtree(fs, target) :
       IF o.ok
         THEN Step(o.fs, IF frontend = "cli" THEN "cli_confirm" ELSE "copy_ensure",
                    <<"rmtree(target)">>)
         ELSE Raise(o.fs, <<"rmtree(target)">>)

\* copy_directory, line 166: ensure_directory(target).
copy_directory_ensure ==
  /\ pc = "copy_ensure"
  /\ \E o \in ensure_directory(fs, target) :
       IF o.ok THEN Step(o.fs, "copy_robocopy", <<"copy_directory">>)
       ELSE Raise(o.fs, <<"copy_directory", "copy_raised">>)

\* copy_directory, lines 167-169: run_robocopy, return if it succeeded.
copy_directory_robocopy ==
  /\ pc = "copy_robocopy"
  /\ \E o \in run_robocopy(fs, source, target) :
       IF o.ret THEN Step(o.fs, "delete", <<"robocopy:" \o o.rc, "copy_returned">>)
       ELSE Step(o.fs, "copy_fallback", <<"robocopy:" \o o.rc>>)

\* copy_directory, lines 170-179: the manual copy.
copy_directory_manual ==
  /\ pc = "copy_fallback"
  /\ \E o \in ManualCopy(fs, source, target) :
       IF o.ok THEN Step(o.fs, "delete", <<"manual_copy", "copy_returned">>)
       ELSE Raise(o.fs, <<"manual_copy", "copy_raised">>)

DeleteLog(o) ==
  <<"delete_directory(source)">> \o (IF o.called THEN <<"rmtree(source)">> ELSE <<>>)

\* delete_directory(source) of the full flow (run_cli 300-305, worker 540).
delete_source ==
  /\ pc = "delete"
  /\ \E o \in delete_directory(fs, source) :
       IF o.ok THEN Step(o.fs, "link", DeleteLog(o))
       ELSE Raise(o.fs, DeleteLog(o) \o <<"rmtree_raised">>)

\* link_only_delete with the error of the removal ignored.
link_only_delete_ignore_errors ==
  /\ pc = "lo_delete"
  /\ IF exists(fs, source)
       THEN \E o \in delete_directory(fs, source) :
              IF o.ok THEN Step(o.fs, "lo_link", DeleteLog(o))
              ELSE Step(o.fs, "lo_link", DeleteLog(o) \o <<"rmtree_raised">>)
       ELSE Step(fs, "lo_link", <<>>)

\* The link-only branch: delete the source if it exists (run_cli 263-264,
\* worker 528-529).
link_only_delete ==
  /\ pc = "lo_delete"
  /\ IF exists(fs, source)
       THEN \E o \in delete_directory(fs, source) :
              IF o.ok THEN Step(o.fs, "lo_link", DeleteLog(o))
              ELSE Raise(o.fs, DeleteLog(o) \o <<"rmtree_raised">>)
       ELSE Step(fs, "lo_link", <<>>)

JunctionLog(o) == <<"create_junction">> \o (IF o.invoked THEN <<"mklink">> ELSE <<>>)

\* What follows a created junction: run_cli verifies the source path (316-321),
\* the link-only branch and the worker only report completion.
Completed(f2) ==
  IF frontend = "cli" /\ pc = "link"
    THEN <<IF exists(f2, source) /\ is_dir(f2, source)
             THEN "msg:verified" ELSE "msg:verify_warning", "msg:done">>
    ELSE <<"msg:done">>

\* create_junction(source, target) (run_cli 265 and 309, worker 530 and 541).
junction ==
  /\ pc \in {"link", "lo_link"}
  /\ \E o \in create_junction(fs, source, target) :
       IF o.res = "ok" THEN Stop(o.fs, "Done", JunctionLog(o) \o <<"junction_created">> \o Completed(o.fs))
       ELSE Raise(o.fs, JunctionLog(o) \o <<"junction_" \o o.res>>)

Next ==
  \/ run_cli_source
  \/ run_cli_target
  \/ run_cli_confirm
  \/ toggle_overwrite
  \/ toggle_link_only
  \/ MoveApp_start
  \/ worker_begin
  \/ overwrite_rmtree
  \/ copy_directory_ensure
  \/ copy_directory_robocopy
  \/ copy_directory_manual
  \/ delete_source
  \/ link_only_delete
  \/ junction

Spec == Init /\ [][Next]_vars

\* The steps of the worker thread (524-546). The thread is started at 546 and
\* scheduled by the interpreter; each call it makes returns or raises, so a
\* step that stays possible is eventually taken.
worker ==
  \/ worker_begin
  \/ overwrite_rmtree
  \/ copy_directory_ensure
  \/ copy_directory_robocopy
  \/ copy_directory_manual
  \/ delete_source
  \/ link_only_delete
  \/ junction

SpecFair == Spec /\ WF_vars(frontend = "gui" /\ worker)

TypeOK ==
  /\ fs \in FileSystems /\ fs0 \in FileSystems
  /\ frontend \in {"cli", "gui", "call", "copy"}
  /\ source \in Paths \cup {NoPath} /\ target \in Paths \cup {NoPath}
  /\ prompts \in 0..MaxPrompts
  /\ policy \in Policies /\ outcome \in Outcomes
  /\ overwrite_var \in BOOLEAN /\ link_only_var \in BOOLEAN
  /\ overwrite \in BOOLEAN /\ link_only \in BOOLEAN /\ running \in BOOLEAN
  /\ workers \in 0..1

\* --------------------------------------- create_junction called on its own
\* create_junction(link_path, target_path) applied to any link path and any
\* target of any filesystem; source holds link_path, target holds target_path.
InitJunction ==
  /\ fs \in InitialFileSystems
  /\ fs0 = fs
  /\ frontend = "call"
  /\ pc = "call"
  /\ source \in Paths /\ target \in Paths
  /\ prompts = 0
  /\ policy = "none"
  /\ overwrite_var = FALSE /\ link_only_var = FALSE
  /\ overwrite = FALSE /\ link_only = FALSE
  /\ running = FALSE /\ workers = 0
  /\ outcome = "none"
  /\ log = <<>>

create_junction_call ==
  /\ pc = "call"
  /\ \E o \in create_junction(fs, source, target) :
       /\ fs' = o.fs /\ pc' = "returned"
       /\ log' = JunctionLog(o) \o <<"junction_" \o o.res>>
       /\ UNCHANGED <<fs0, frontend, source, target, prompts, policy, overwrite_var,
                      link_only_var, overwrite, link_only, running, workers, outcome>>

SpecJunction == InitJunction /\ [][create_junction_call]_vars

\* ------------------------------- the manual copy of copy_directory, twice
\* Lines 170-179 applied to any source and any target that is a directory
\* (ensure_directory(target) of line 166 has returned), and then once more.
InitCopy ==
  /\ fs \in InitialFileSystems
  /\ fs0 = fs
  /\ frontend = "copy"
  /\ pc = "call"
  /\ source \in Paths /\ target \in Paths
  /\ is_dir(fs, target)
  /\ prompts = 0
  /\ policy = "none"
  /\ overwrite_var = FALSE /\ link_only_var = FALSE
  /\ overwrite = FALSE /\ link_only = FALSE
  /\ running = FALSE /\ workers = 0
  /\ outcome = "none"
  /\ log = <<>>

manual_copy_call ==
  /\ pc = "call"
  /\ \E o \in ManualCopy(fs, source, target) :
       /\ fs' = o.fs /\ pc' = IF o.ok THEN "once" ELSE "raised"
       /\ log' = <<"manual_copy", IF o.ok THEN "copy_returned" ELSE "copy_raised">>
       /\ UNCHANGED <<fs0, frontend, source, target, prompts, policy, overwrite_var,
                      link_only_var, overwrite, link_only, running, workers, outcome>>

manual_copy_again ==
  /\ pc = "once"
  /\ \E o \in ManualCopy(fs, source, target) :
       /\ fs' = o.fs /\ pc' = IF o.ok THEN "twice" ELSE "raised"
       /\ log' = log \o <<"manual_copy", IF o.ok THEN "copy_returned" ELSE "copy_raised">>
       /\ UNCHANGED <<fs0, frontend, source, target, prompts, policy, overwrite_var,
                      link_only_var, overwrite, link_only, running, workers, outcome>>

NextCopy == manual_copy_call \/ manual_copy_again

SpecCopy == InitCopy /\ [][NextCopy]_vars

\* ----------------------------------------------------------------- claims
Has(e) == \E i \in 1..Len(log) : log[i] = e
\* Every occurrence of b in the log has an a before it.
Precedes(a, b) ==
  \A j \in 1..Len(log) : log[j] = b => \E i \in 1..(j - 1) : log[i] = a
Ended == pc = Rest /\ outcome # "none"

\* A run on two different paths whose source was a directory when it started.
PlainRun == source # NoPath /\ target # NoPath /\ source # target /\ fs0[source].kind = "dir"

\* C1: once robocopy has returned an exit code above 7 the copy phase fails:
\* the source is not deleted, no junction is attempted, and the run ends in
\* Failed(copy). (Stated for runs on two different paths, the claim's own case.)
C1_RobocopyFailureFailsCopy ==
  (PlainRun /\ Has("robocopy:gt7")) =>
    /\ ~Has("delete_directory(source)")
    /\ ~Has("create_junction")
    /\ (Ended => outcome = "Failed_copy")

\* C2: in a run that is not link-only, delete_directory(source) is called only
\* after copy_directory has returned; once copy_directory has raised, the run
\* is over, the source was never deleted and the filesystem stays as it is.
C2_DeleteOnlyAfterCopy ==
  /\ [](/\ (policy # "LinkOnlyToExisting") =>
              Precedes("copy_returned", "delete_directory(source)")
        /\ Has("copy_raised") =>
              (/\ ~Has("delete_directory(source)") /\ ~Has("rmtree(source)")
               /\ Ended /\ outcome = "Failed_copy"))
  /\ [][(Has("copy_raised") /\ log' = log) => fs' = fs]_vars
\* A full run on two paths has deleted its source after the copy returned.
C2_Witness ==
  /\ policy # "LinkOnlyToExisting" /\ Has("copy_returned")
  /\ Has("rmtree(source)") /\ PlainRun

\* C3: once the removal of the source tree has raised, create_junction is not
\* called in that run, whatever the front-end and the branch.
C3_NoJunctionAfterFailedDelete ==
  Has("rmtree_raised") => (~Has("create_junction") /\ Ended /\ outcome = "Failed_delete")
\* The removal of the source raised in a link-only run on two paths.
C3_Witness == Has("rmtree_raised") /\ policy = "LinkOnlyToExisting" /\ PlainRun

Mutating ==
  {"rmtree(target)", "copy_directory", "delete_directory(source)", "rmtree(source)",
   "create_junction"}
\* C4: whenever a mutating operation has run, source and target are two
\* different resolved paths.
\* (Stated for a source that was a directory when the run started.)
C4_DistinctPathsBeforeMutation ==
  (source # NoPath /\ fs0[source].kind = "dir" /\ \E e \in Mutating : Has(e))
    => source # target

\* C5: create_junction on an occupied link path ends in the precondition
\* error, without calling mklink and without changing the filesystem.
C5_OccupiedLinkPathRefused ==
  (pc = "returned" /\ Occupied(fs0, source)) =>
    (log = <<"create_junction", "junction_precondition">> /\ fs = fs0)

\* The target did not exist when the run inspected it (run_cli 241-244 and
\* 274-276; _start 477).
TargetReportedAbsent ==
  IF frontend = "cli" THEN policy = "ProceedFresh"
  ELSE target # NoPath /\ ~exists(fs0, target)
\* C6: when the target was reported absent, the source is deleted only after
\* the copy has returned, and a completed run has copied.
C6_AbsentTargetIsCopied ==
  (PlainRun /\ TargetReportedAbsent) =>
    /\ Precedes("copy_returned", "delete_directory(source)")
    /\ (outcome = "Done" => Has("copy_returned"))

\* The target existed when the link-only run inspected it.
LinkOnlyToExistingTarget ==
  /\ policy = "LinkOnlyToExisting"
  /\ IF frontend = "cli" THEN TRUE ELSE exists(fs0, target)
\* C7: a link-only run onto an existing target never copies, and when it
\* completes the source path is a junction to the target and the target is
\* what it was before the run.
C7_LinkOnlyLeavesTarget ==
  LinkOnlyToExistingTarget =>
    /\ ~Has("copy_directory")
    /\ (outcome = "Done" =>
          /\ fs[source] = Link("junction", target)
          /\ exists(fs, target)
          /\ TreeAt(fs, target) = TreeAt(fs0, target))
\* The same, for runs whose source and target are different paths.
C7_DistinctPaths == (source # target) => C7_LinkOnlyLeavesTarget

\* C8: after copy_directory, delete_directory and create_junction have all
\* completed, the source path is an existing directory and its inspection
\* equals that of the target.
C8_JunctionReadsTarget ==
  (policy # "LinkOnlyToExisting" /\ outcome = "Done") =>
    /\ exists(fs, source) /\ is_dir(fs, source)
    /\ collect_dir_info(fs, source) = collect_dir_info(fs, target)
\* The same, for runs whose source and target are different paths.
C8_DistinctPaths == (source # target) => C8_JunctionReadsTarget

\* C9: a failure of a mutating phase never leaves run_cli or the worker as an
\* unhandled exception.
C9_NoUnhandledPhaseFailure ==
  (PlainRun /\ outcome \in {"Failed_overwrite", "Failed_copy", "Failed_delete", "Failed_link"})
    => ~Has("unhandled_exception")

\* C10: a tree at the target path is removed only under OverwriteExisting,
\* after the user said yes to the overwrite confirmation.
C10_TargetDeletedOnlyOnConfirmedOverwrite ==
  (Has("rmtree(target)") \/ (Has("rmtree(source)") /\ source = target)) =>
    (policy = "OverwriteExisting" /\ Has("yes:overwrite"))
\* The same, for runs whose source and target are different paths.
C10_DistinctPaths == (source # target) => C10_TargetDeletedOnlyOnConfirmedOverwrite

\* C11: when the source does not exist and the user declines to create it,
\* the run ends Aborted and nothing was created, copied, deleted or linked.
C11_DeclinedCreationChangesNothing ==
  Has("no:create") =>
    /\ Ended /\ outcome = "Aborted"
    /\ fs = fs0
    /\ \A e \in Mutating \cup {"ensure_directory(source)"} : ~Has(e)
\* The user declined to create a source that did not exist.
C11_Witness == Has("no:create") /\ ~exists(fs0, source) /\ Ended

\* C12: a source that exists and is not a directory stops the run before any
\* mutation: the filesystem stays as the run found it.
\* (Stated for runs on two different paths.)
C12_NonDirectorySourceRefused ==
  (source # NoPath /\ target # NoPath /\ source # target /\ fs0[source].kind = "file") =>
    fs = fs0

\* C13: copy, deletion of the source and junction creation begin only after
\* the advisory checks and the user's confirmation that the application is
\* closed.
C13_ConfirmedBeforeMutation ==
  PlainRun =>
    \A e \in {"copy_directory", "delete_directory(source)", "create_junction"} :
       Precedes("yes:closed", e)

\* C14: when junction creation fails after the source tree was removed, the
\* run ends Failed(link) and the link-failure report has been shown.
C14_LinkFailureReported ==
  (PlainRun /\ Has("rmtree(source)") /\ (Has("junction_failed") \/ Has("junction_precondition")))
    => (outcome = "Failed_link" /\ Has("msg:junction_failed"))

\* C15: in the window, once a run has disabled the input (_set_running(True)),
\* the input is eventually enabled again, whatever the worker's outcome; and
\* the input is enabled whenever no worker is running.
C15_InputReenabled ==
  /\ (frontend = "gui" /\ running) ~> ~running
  /\ []((frontend = "gui" /\ pc = "idle") => ~running)
C15_Witness ==
  /\ frontend = "gui" /\ Has("yes:closed") /\ Has("unhandled_exception")
  /\ outcome = "Failed_link" /\ ~running

\* C16: at most one worker thread is alive, and while one is, the input is
\* disabled and _start cannot run.
C16_OneWorker ==
  /\ workers <= 1
  /\ (frontend = "gui" /\ workers = 1) => (running /\ ~ENABLED MoveApp_start)
C16_Witness == frontend = "gui" /\ workers = 1 /\ pc = "delete" /\ running

\* C17: the two check boxes are never both set, and a click that sets
\* link-only leaves overwrite cleared.
C17_OptionsExclusive ==
  /\ [](~(overwrite_var /\ link_only_var))
  /\ [][(link_only_var' /\ ~link_only_var) => ~overwrite_var']_vars
C17_Witness == frontend = "gui" /\ link_only_var /\ ~overwrite_var /\ pc = "idle"

\* C18: after a manual copy that returned, every file of the source tree is
\* present at the same place under the target, every file and directory the
\* target had is as it was, the source is as it was, no path has lost its
\* entry, and a second copy changes nothing and returns.
C18_ManualCopyFirstWins ==
  /\ [](pc \in {"once", "twice"} =>
         LET s0 == TreeAt(fs0, source)
             t0 == TreeAt(fs0, target)
             t1 == TreeAt(fs, target)
         IN /\ \A n \in PresentFiles(s0) : n \in PresentFiles(t1)
            /\ s0.dirs \subseteq t1.dirs
            /\ \A n \in PresentFiles(t0) : t1.files[n] = t0.files[n]
            /\ t0.dirs \subseteq t1.dirs
            /\ TreeAt(fs, source) = s0
            /\ \A p \in Paths : fs[p].kind = fs0[p].kind /\ fs[p].link = fs0[p].link)
  /\ [][pc = "once" => (fs' = fs /\ pc' = "twice")]_vars
\* A copy that met a different file at the target, and was run again.
C18_Witness ==
  /\ pc = "twice" /\ source # target
  /\ \E n \in FileNames :
       /\ TreeAt(fs0, target).files[n] > 0
       /\ TreeAt(fs0, source).files[n] > 0
       /\ TreeAt(fs0, source).files[n] # TreeAt(fs0, target).files[n]
  /\ TreeAt(fs, target) # TreeAt(fs0, target)

\* C19: a run that ended because the user declined a confirmation has left
\* the filesystem exactly as it was when the run started.
C19_DeclinedRunChangesNothing ==
  (PlainRun /\ Ended /\ outcome = "Aborted" /\ ~Has("msg:target_exists")) => fs = fs0

\* C20: in a run that copies (not link-only) between two different paths,
\* at every point each file the source tree had at the start exists under the
\* source or at the same relative path under the target.
C20_NoDataLoss ==
  (source # NoPath /\ target # NoPath /\ source # target /\ policy # "LinkOnlyToExisting") =>
    \A n \in PresentFiles(TreeAt(fs0, source)) :
       n \in PresentFiles(TreeAt(fs, source)) \/ n \in PresentFiles(TreeAt(fs, target))
\* The source is gone after a robocopy failure and the manual copy, and the
\* junction was not created: the files are found under the target only.
C20_Witness ==
  /\ PlainRun /\ policy \in {"ProceedFresh", "OverwriteExisting"}
  /\ PresentFiles(TreeAt(fs0, source)) = FileNames
  /\ Has("robocopy:gt7") /\ Has("manual_copy") /\ Has("rmtree(source)")
  /\ fs[source].kind = "absent" /\ outcome = "Failed_link"
====
